---- MODULE Spec2Model ----
(***************************************************************************)
(* The tool layer of my-daily-tasks-agent: TodoTools (the HTTP client of   *)
(* src/mdt_agent/tools.py) running against the remote todo service, and    *)
(* MockTodoTools (src/tests/mock_tools.py), the in-memory double; and the  *)
(* chat front-end of src/app.py, which keeps the conversation in the       *)
(* session state.                                                          *)
(*                                                                         *)
(* Python values: None is <<>>, a present Optional value v is <<v>>.       *)
(* A due-date string is a record: Iso(day, sec) is the text that           *)
(* datetime.isoformat() prints for the offset-naive datetime (day, sec),   *)
(* Text(s) is any other text (the empty string, a shortcut token, or text  *)
(* that datetime.fromisoformat rejects).  Offset-aware ISO strings are     *)
(* outside the modelled domain.  A datetime is [day, sec]: day counts days *)
(* from a Monday, sec is the second of the day.                            *)
(***************************************************************************)
EXTENDS Integers, Sequences, FiniteSets, TLC

VARIABLES
    todos,   \* the store: id -> todo JSON (the remote's state / _todos)
    now,     \* the wall clock read by datetime.now()
    pc,      \* where the agent's tool call stands: "idle" or "toggled"
    cur,     \* the mark_completed call in progress (its locals)
    call,    \* the last event: the tool call that returned or raised, with
             \* its arguments, requests and result
    session_state,  \* st.session_state: agent_messages, chat_history and
                    \* tool_logs of the chat front-end
    next_id         \* MockTodoTools._next_id, None where there is no double

vars == <<todos, now, pc, cur, call, session_state, next_id>>

----------------------------------------------------------------------------
(* Bounds *)

MaxTodos == 2       \* todos the store holds at most
MaxExt == 2         \* toggles by another client inside one mark_completed
MaxAnchorDay == 13  \* the clock's day is one of 0..MaxAnchorDay
MaxTurns == 2       \* prompts the chat front-end handles before a reset
MaxPromptLen == 3   \* characters of a prompt as typed
MaxStored == 4      \* todos one MockTodoTools object holds

----------------------------------------------------------------------------
(* Python values *)

None == <<>>
Some(v) == <<v>>
Val(o) == o[1]

\* init_session_state / reset_conversation: the three lists are empty
NewSession ==
    [agent_messages |-> <<>>, chat_history |-> <<>>, tool_logs |-> <<>>]

Iso(day, sec) == [kind |-> "iso", day |-> day, sec |-> sec]
Text(s) == [kind |-> "text", s |-> s]

\* datetime(y, m, d, 23, 59, 59) and the 17:00 the tests' fixtures use
EndOfDaySec == 86399
FivePmSec == 61200

\* truthiness of an Optional[str]: None and "" are falsy
Truthy(o) == o # None /\ Val(o) # Text("")

Ids == 1..MaxTodos
Titles == {"", "a"}
TagLists == {<<>>, <<"work">>}
Dues == {None, Some(Iso(0, FivePmSec))}

\* the todo JSON of spec section 3
Todo(id, text, due, tags, completed) ==
    [id |-> id, text |-> text, dueDate |-> due, tags |-> tags,
     completed |-> completed]

\* the array a list request answers with: the store's todos in id order
RECURSIVE ListFrom(_, _)
ListFrom(store, i) ==
    IF i > Cardinality(DOMAIN store) THEN <<>>
    ELSE <<store[i]>> \o ListFrom(store, i + 1)

TodoList(store) == ListFrom(store, 1)

IdsOf(list) == {list[i].id : i \in 1..Len(list)}

----------------------------------------------------------------------------
(* The remote service, spec section 6 *)

\* POST /api/todos: the created todo, incomplete, under a fresh id
RemoteCreate(store, payload) ==
    LET id == Cardinality(DOMAIN store) + 1
    IN  [i \in DOMAIN store \cup {id} |->
            IF i = id
            THEN Todo(id, payload.text, payload.dueDate, payload.tags, FALSE)
            ELSE store[i]]

\* PATCH /api/todos/{id}: the keys of the partial body replace the fields
RemotePatch(store, id, payload) ==
    [store EXCEPT ![id] =
        [f \in DOMAIN store[id] |->
            IF f \in DOMAIN payload THEN payload[f] ELSE store[id][f]]]

\* POST /api/todos/{id}/toggle: the completed flag flipped
RemoteToggle(store, id) ==
    [store EXCEPT ![id].completed = ~store[id].completed]

----------------------------------------------------------------------------
(* TodoTools.create_todo *)

\* mutant of lines 32-36: the due date is left out of the payload
CreatePayloadNoDue(title, due_date, tags) ==
    [text |-> title,
     dueDate |-> None,
     tags |-> IF tags = None THEN <<>> ELSE Val(tags)]

\* the HTTP status of the remote's answer to a request: the request is
\* served, names a todo the remote does not hold, or fails in the remote
Status(ok, found) == IF ~found THEN 404 ELSE IF ok THEN 200 ELSE 500

\* mutant of resp.raise_for_status(): only "not found" is raised
raise_for_status_not_found(status) == status = 404

\* resp.raise_for_status(): raises on every status outside 200..299 here
raise_for_status(status) == status \notin 200..299

CreatePayload(title, due_date, tags) ==
    [text |-> title,
     dueDate |-> due_date,
     tags |-> IF tags = None THEN <<>> ELSE Val(tags)]

create_todo(title, due_date, tags, ok) ==
    /\ pc = "idle"
    /\ LET payload == CreatePayload(title, due_date, tags)
           id == Cardinality(DOMAIN todos) + 1
           status == Status(ok, TRUE)
       IN  IF ~raise_for_status(status) /\ id <= MaxTodos
           THEN /\ todos' = RemoteCreate(todos, payload)
                /\ call' = [op |-> "create_todo", raised |-> FALSE,
                            title |-> title, due_date |-> due_date,
                            tags |-> tags, payload |-> payload,
                            pre |-> todos, result |-> todos'[id],
                            status |-> status, sent |-> 1]
           ELSE /\ raise_for_status(status)
                /\ todos' = todos
                /\ call' = [op |-> "create_todo", raised |-> TRUE,
                            status |-> status, sent |-> 1]
    /\ UNCHANGED <<now, pc, cur, session_state, next_id>>

----------------------------------------------------------------------------
(* TodoTools.update_todo *)

\* mutant of lines 66-71: "if title:" and "if tags:", which drop "" and []
UpdateKeysTruthy(title, due_date, tags) ==
    {k \in {"text", "dueDate", "tags"} :
        \/ k = "text" /\ title # None /\ Val(title) # ""
        \/ k = "dueDate" /\ due_date # None
        \/ k = "tags" /\ tags # None /\ Val(tags) # <<>>}

UpdateKeys(title, due_date, tags) ==
    {k \in {"text", "dueDate", "tags"} :
        \/ k = "text" /\ title # None
        \/ k = "dueDate" /\ due_date # None
        \/ k = "tags" /\ tags # None}

\* mutant of lines 65-71: dueDate is always sent, as create_todo sends it
UpdatePayloadAlwaysDue(title, due_date, tags) ==
    [k \in UpdateKeys(title, due_date, tags) \cup {"dueDate"} |->
        CASE k = "text" -> Val(title)
          [] k = "dueDate" -> due_date
          [] k = "tags" -> Val(tags)]

UpdatePayload(title, due_date, tags) ==
    [k \in UpdateKeys(title, due_date, tags) |->
        CASE k = "text" -> Val(title)
          [] k = "dueDate" -> due_date
          [] k = "tags" -> Val(tags)]

update_todo(todo_id, title, due_date, tags, ok) ==
    /\ pc = "idle"
    /\ LET payload == UpdatePayload(title, due_date, tags)
           status == Status(ok, todo_id \in DOMAIN todos)
       IN  IF ~raise_for_status(status)
           THEN /\ todos' = RemotePatch(todos, todo_id, payload)
                /\ call' = [op |-> "update_todo", raised |-> FALSE,
                            id |-> todo_id, title |-> title,
                            due_date |-> due_date, tags |-> tags,
                            payload |-> payload, pre |-> todos,
                            result |-> todos'[todo_id],
                            status |-> status, sent |-> 1]
           ELSE /\ todos' = todos
                /\ call' = [op |-> "update_todo", raised |-> TRUE,
                            status |-> status, sent |-> 1]
    /\ UNCHANGED <<now, pc, cur, session_state, next_id>>

\* update_todo called with the keyword completed, which the signature of
\* lines 44-50 does not have: Python raises TypeError before the body runs,
\* so no request is sent.  marked tells whether the call follows a return
\* of mark_completed for the same todo.
update_todo_completed(todo_id, completed) ==
    /\ pc = "idle"
    /\ call' = [op |-> "update_todo", raised |-> TRUE, id |-> todo_id,
                completed |-> Some(completed), error |-> "TypeError",
                marked |-> /\ call.op = "mark_completed"
                           /\ ~call.raised
                           /\ call.id = todo_id,
                sent |-> 0]
    /\ UNCHANGED <<todos, now, pc, cur, session_state, next_id>>

----------------------------------------------------------------------------
(* TodoTools.mark_completed: one toggle request, and a second one when the *)
(* first response shows completed = false.  Each request is answered by    *)
(* the remote in one step; another client's requests fall between them.    *)

\* mutants of line 96: toggling again whatever the response shows, and never
NeedsSecondToggleAlways(todo) == TRUE
NeedsSecondToggleNever(todo) == FALSE

\* line 96: the first response toggled the wrong way
NeedsSecondToggle(todo) == ~todo.completed

\* mutant of lines 97-101: the second toggle is taken to have completed it
ReturnedAssumedCompleted(first, second) == [second EXCEPT !.completed = TRUE]

\* lines 97-101: the record returned after the second response
ReturnedAfterSecond(first, second) == second

MarkReturn(todo_id, was, mid, sent, first, result) ==
    [op |-> "mark_completed", raised |-> FALSE, id |-> todo_id, was |-> was,
     mid |-> mid, sent |-> sent, first |-> first, result |-> result]

MarkRaise(todo_id, was, sent, flag) ==
    [op |-> "mark_completed", raised |-> TRUE, id |-> todo_id, was |-> was,
     sent |-> sent, left |-> flag]

\* the record of a call with the status of the remote's last answer to it
WithStatus(record, status) ==
    [k \in DOMAIN record \cup {"status"} |->
        IF k = "status" THEN status ELSE record[k]]

\* the record of a raised call with the number of toggles other clients
\* made between its two requests
WithMid(record, mid) ==
    [k \in DOMAIN record \cup {"mid"} |->
        IF k = "mid" THEN mid ELSE record[k]]

\* lines 90-96: the first request and the inspection of its response
mark_completed(todo_id, ok) ==
    /\ pc = "idle"
    /\ LET status == Status(ok, todo_id \in DOMAIN todos)
       IN  IF ~raise_for_status(status)
           THEN /\ todos' = RemoteToggle(todos, todo_id)
                /\ LET todo == todos'[todo_id]
                       was == todos[todo_id].completed
                   IN  IF NeedsSecondToggle(todo)
                       THEN /\ pc' = "toggled"
                            /\ cur' = [id |-> todo_id, was |-> was,
                                       mid |-> 0, todo |-> todo,
                                       pre |-> todos]
                            /\ call' = [op |-> "mark_completed_request",
                                        raised |-> FALSE, status |-> status,
                                        sent |-> 1]
                       ELSE /\ pc' = "idle"
                            /\ cur' = None
                            /\ call' = WithStatus(MarkReturn(todo_id, was, 0,
                                                     1, todo, todo), status)
           ELSE /\ todos' = todos
                /\ pc' = "idle"
                /\ cur' = None
                /\ call' = IF todo_id \in DOMAIN todos
                           THEN WithStatus(MarkRaise(todo_id,
                                               todos[todo_id].completed, 1,
                                               todos[todo_id].completed),
                                           status)
                           ELSE [op |-> "mark_completed", raised |-> TRUE,
                                 id |-> todo_id, sent |-> 1,
                                 status |-> status]
    /\ UNCHANGED <<now, session_state, next_id>>

\* lines 97-101: the second request
mark_completed_again(ok) ==
    /\ pc = "toggled"
    /\ LET status == Status(ok, TRUE)
       IN  IF ~raise_for_status(status)
           THEN /\ todos' = RemoteToggle(todos, cur.id)
                /\ call' = WithStatus(
                              MarkReturn(cur.id, cur.was, cur.mid, 2, cur.todo,
                                ReturnedAfterSecond(cur.todo, todos'[cur.id])),
                              status)
           ELSE /\ todos' = todos
                /\ call' = WithMid(
                              WithStatus(MarkRaise(cur.id, cur.was, 2,
                                                   todos[cur.id].completed),
                                         status),
                              cur.mid)
    /\ pc' = "idle"
    /\ cur' = None
    /\ UNCHANGED <<now, session_state, next_id>>

\* another client of the remote toggles a todo
OtherClientToggle(todo_id) ==
    /\ todo_id \in DOMAIN todos
    /\ todos' = RemoteToggle(todos, todo_id)
    /\ IF pc = "toggled" /\ cur.id = todo_id
       THEN /\ cur.mid < MaxExt
            /\ cur' = [cur EXCEPT !.mid = @ + 1]
       ELSE cur' = cur
    /\ call' = [op |-> "other_client", raised |-> FALSE, id |-> todo_id]
    /\ UNCHANGED <<now, pc, session_state, next_id>>

----------------------------------------------------------------------------
(* MockTodoTools.mark_completed: the store it leaves and the record it     *)
(* returns, for a todo the store holds                                     *)

\* mutant of line 73: the double flips the flag as the remote does
MockMarkToggled(store, todo_id) ==
    [store EXCEPT ![todo_id].completed = ~@]

\* lines 69-73
MockMarkCompleted(store, todo_id) ==
    [store EXCEPT ![todo_id].completed = TRUE]

\* line 74: self._clone(todo)
MockMarkResult(store, todo_id) == MockMarkCompleted(store, todo_id)[todo_id]

----------------------------------------------------------------------------
(* TodoTools.get_incomplete_todos *)

\* the remote's answer to GET /api/todos without parameters
RemoteList(store) == TodoList(store)

\* mutant of line 117: the list as the remote sent it
IncompleteUnfiltered(list) == list

\* line 117
IncompleteOf(list) == SelectSeq(list, LAMBDA t : ~t.completed)

get_incomplete_todos(ok) ==
    /\ pc = "idle"
    /\ LET status == Status(ok, TRUE)
       IN  call' = IF ~raise_for_status(status)
                   THEN [op |-> "get_incomplete_todos", raised |-> FALSE,
                         response |-> RemoteList(todos),
                         result |-> IncompleteOf(RemoteList(todos)),
                         status |-> status, sent |-> 1]
                   ELSE [op |-> "get_incomplete_todos", raised |-> TRUE,
                         status |-> status, sent |-> 1]
    /\ UNCHANGED <<todos, now, pc, cur, session_state, next_id>>

----------------------------------------------------------------------------
(* _resolve_due_shortcut, the same code in TodoTools and MockTodoTools *)

isoformat(dt) == Iso(dt.day, dt.sec)

\* mutant of lines 145 and 151: datetime.isoweekday(), Monday is 1
isoweekday(dt) == (dt.day % 7) + 1

\* datetime.weekday(): Monday is 0, Sunday is 6
weekday(dt) == dt.day % 7

\* mutant of lines 140, 146 and 152: timedelta(hours = n)
PlusHours(dt, n) ==
    [day |-> dt.day + (dt.sec + 3600 * n) \div 86400,
     sec |-> (dt.sec + 3600 * n) % 86400]

\* today_end + timedelta(days = n)
PlusDays(dt, n) == [dt EXCEPT !.day = @ + n]

\* mutant of line 134: the start of the day instead of its end
today_start(clock) == [day |-> clock.day, sec |-> 0]

today_end(clock) == [day |-> clock.day, sec |-> EndOfDaySec]

\* mutant of lines 149-153: next_week as seven days from today
resolve_next_week_from_today(shortcut, clock) ==
    CASE shortcut = Text("today") -> Some(isoformat(today_end(clock)))
      [] shortcut = Text("tomorrow") ->
            Some(isoformat(PlusDays(today_end(clock), 1)))
      [] shortcut = Text("this_week") ->
            Some(isoformat(PlusDays(today_end(clock), 6 - weekday(clock))))
      [] shortcut = Text("next_week") ->
            Some(isoformat(PlusDays(today_end(clock), 7)))
      [] OTHER -> None

resolve_due_shortcut(shortcut, clock) ==
    CASE shortcut = Text("today") -> Some(isoformat(today_end(clock)))
      [] shortcut = Text("tomorrow") ->
            Some(isoformat(PlusDays(today_end(clock), 1)))
      [] shortcut = Text("this_week") ->
            Some(isoformat(PlusDays(today_end(clock), 6 - weekday(clock))))
      [] shortcut = Text("next_week") ->
            Some(isoformat(PlusDays(today_end(clock),
                                    6 - weekday(clock) + 7)))
      [] OTHER -> None

----------------------------------------------------------------------------
(* MockTodoTools.get_todos *)

\* truthiness of an Optional[str] holding a tag
TruthyTag(o) == o # None /\ Val(o) # ""

\* _parse_datetime: None for None, "" and text fromisoformat rejects
parse_datetime(value) ==
    IF ~Truthy(value) THEN None
    ELSE IF Val(value).kind = "iso"
         THEN Some([day |-> Val(value).day, sec |-> Val(value).sec])
         ELSE None

\* datetime.__le__ on offset-naive datetimes
DtLeq(a, b) == a.day < b.day \/ (a.day = b.day /\ a.sec <= b.sec)

InTags(tag, tags) == \E i \in 1..Len(tags) : tags[i] = tag

\* mutant of line 133: strictly before the target
DueFilterStrict(list, target) ==
    LET target_dt == parse_datetime(Some(target))
    IN  IF target_dt # None
        THEN SelectSeq(list, LAMBDA t :
                /\ parse_datetime(t.dueDate) # None
                /\ ~DtLeq(Val(target_dt), Val(parse_datetime(t.dueDate))))
        ELSE SelectSeq(list, LAMBDA t : t.dueDate = Some(target))

\* lines 122-139: target is the resolved shortcut or the literal
DueFilter(list, target) ==
    LET target_dt == parse_datetime(Some(target))
    IN  IF target_dt # None
        THEN SelectSeq(list, LAMBDA t :
                /\ parse_datetime(t.dueDate) # None
                /\ DtLeq(Val(parse_datetime(t.dueDate)), Val(target_dt)))
        ELSE SelectSeq(list, LAMBDA t : t.dueDate = Some(target))

\* lines 141-146
TagFilter(list, tag) == SelectSeq(list, LAMBDA t : InTags(tag, t.tags))

\* mutant of lines 198-203: "if completed" / "else", so None filters too
CompletionFilterTruthy(list, completed) ==
    IF completed = Some(TRUE)
    THEN SelectSeq(list, LAMBDA t : t.completed)
    ELSE SelectSeq(list, LAMBDA t : ~t.completed)

\* tools.py lines 198-203 and mock_tools.py lines 148-151
CompletionFilter(list, completed) ==
    IF completed = Some(TRUE)
    THEN SelectSeq(list, LAMBDA t : t.completed)
    ELSE IF completed = Some(FALSE)
         THEN SelectSeq(list, LAMBDA t : ~t.completed)
         ELSE list

\* mutant of lines 186-187: the token itself is sent, never resolved
DueTargetLiteral(due_date, clock) == Val(due_date)

DueTarget(due_date, clock) ==
    IF resolve_due_shortcut(Val(due_date), clock) # None
    THEN Val(resolve_due_shortcut(Val(due_date), clock))
    ELSE Val(due_date)

MockGetTodos(store, due_date, tag, completed, clock) ==
    LET all == TodoList(store)
        byDue == IF Truthy(due_date)
                 THEN DueFilter(all, DueTarget(due_date, clock))
                 ELSE all
        byTag == IF TruthyTag(tag) THEN TagFilter(byDue, Val(tag))
                 ELSE byDue
    IN  CompletionFilter(byTag, completed)

mock_get_todos(due_date, tag, completed) ==
    /\ pc = "idle"
    /\ call' = [op |-> "mock_get_todos", raised |-> FALSE,
                due_date |-> due_date, tag |-> tag, completed |-> completed,
                result |-> MockGetTodos(todos, due_date, tag, completed, now)]
    /\ UNCHANGED <<todos, now, pc, cur, session_state, next_id>>

\* MockTodoTools.get_incomplete_todos, lines 76-81
MockGetIncomplete(store) == SelectSeq(TodoList(store), LAMBDA t : ~t.completed)

----------------------------------------------------------------------------
(* TodoTools.get_todos *)

\* lines 182-191: the query parameters
GetTodosParams(due_date, tag, clock) ==
    [k \in {p \in {"dueBefore", "tags"} :
                \/ p = "dueBefore" /\ Truthy(due_date)
                \/ p = "tags" /\ TruthyTag(tag)} |->
        IF k = "dueBefore" THEN DueTarget(due_date, clock) ELSE Val(tag)]

\* GET /api/todos?dueBefore=...&tags=...: the todos due on or before
\* dueBefore that carry the tag
RemoteGet(store, params) ==
    LET all == TodoList(store)
        byDue == IF "dueBefore" \in DOMAIN params
                 THEN DueFilter(all, params["dueBefore"])
                 ELSE all
    IN  IF "tags" \in DOMAIN params THEN TagFilter(byDue, params["tags"])
        ELSE byDue

get_todos(due_date, tag, completed, ok) ==
    /\ pc = "idle"
    /\ LET params == GetTodosParams(due_date, tag, now)
           response == RemoteGet(todos, params)
           status == Status(ok, TRUE)
       IN  call' = IF ~raise_for_status(status)
                   THEN [op |-> "get_todos", raised |-> FALSE,
                         due_date |-> due_date, tag |-> tag,
                         completed |-> completed, params |-> params,
                         response |-> response,
                         result |-> CompletionFilter(response, completed),
                         status |-> status, sent |-> 1]
                   ELSE [op |-> "get_todos", raised |-> TRUE,
                         params |-> params, status |-> status, sent |-> 1]
    /\ UNCHANGED <<todos, now, pc, cur, session_state, next_id>>

----------------------------------------------------------------------------
(* The chat front-end, src/app.py.  Texts are sequences of characters and  *)
(* of words; the agent run is the library's: it returns a result or raises *)
(* an exception derived from Exception.                                    *)

Chars == {" ", "a"}
Prompts == UNION {[1..n -> Chars] : n \in 0..MaxPromptLen}

\* str.strip(): the text without its leading and trailing whitespace
RECURSIVE lstrip(_)
lstrip(s) == IF s # <<>> /\ Head(s) = " " THEN lstrip(Tail(s)) ELSE s

RECURSIVE rstrip(_)
rstrip(s) ==
    IF s # <<>> /\ s[Len(s)] = " " THEN rstrip(SubSeq(s, 1, Len(s) - 1))
    ELSE s

strip(s) == rstrip(lstrip(s))

\* lines 72-78: what runner.agent.run gives back
Outputs == {<<"done">>}
ToolRecords == {<<>>, <<"todo-agent: get_todos({})">>}
Errors == {<<"boom">>}
AgentOutcomes ==
    [kind : {"returns"}, output : Outputs, records : ToolRecords]
        \cup [kind : {"raises"}, exc : Errors]

\* result.new_messages(): the request and the response of this run
new_messages(prompt, output) ==
    <<[kind |-> "request", content |-> prompt],
      [kind |-> "response", content |-> output]>>

Message(role, content) == [role |-> role, content |-> content]
LogEntry(prompt, entries) == [prompt |-> prompt, entries |-> entries]

\* mutant of lines 80-85: a run without tool calls leaves no log entry
run_agent_logging_calls(state, prompt, outcome) ==
    [state EXCEPT
        !.agent_messages = @ \o new_messages(prompt, outcome.output),
        !.tool_logs = IF outcome.records = <<>> THEN @
                      ELSE Append(@, LogEntry(prompt, outcome.records))]

\* lines 79-85: run_agent after the run has returned
run_agent(state, prompt, outcome) ==
    [state EXCEPT
        !.agent_messages = @ \o new_messages(prompt, outcome.output),
        !.tool_logs = Append(@, LogEntry(prompt, outcome.records))]

\* line 100: f"Unable to fulfill the request: {exc}"
error_text(exc) == <<"Unable to fulfill the request: ">> \o exc

\* mutant of lines 101-107: the error is shown in the chat and not logged
record_error_unlogged(state, prompt, text) ==
    [state EXCEPT !.chat_history = Append(@, Message("assistant", text))]

\* lines 101-107: the except branch
record_error(state, prompt, text) ==
    [state EXCEPT
        !.chat_history = Append(@, Message("assistant", text)),
        !.tool_logs = Append(@, LogEntry(prompt, <<text>>))]

handle_user_prompt(prompt, outcome) ==
    /\ pc = "idle"
    /\ strip(prompt) = <<>> \/ Len(session_state.tool_logs) < MaxTurns
    /\ LET clean_prompt == strip(prompt)
           asked == [session_state EXCEPT
                        !.chat_history =
                            Append(@, Message("user", clean_prompt))]
       IN  IF clean_prompt = <<>>
           THEN /\ session_state' = session_state
                /\ call' = [op |-> "handle_user_prompt", raised |-> FALSE,
                            prompt |-> prompt, run |-> [kind |-> "not run"],
                            pre |-> session_state]
           ELSE /\ session_state' =
                    IF outcome.kind = "raises"
                    THEN record_error(asked, clean_prompt,
                                      error_text(outcome.exc))
                    ELSE [run_agent(asked, clean_prompt, outcome) EXCEPT
                            !.chat_history =
                                Append(@, Message("assistant",
                                                  outcome.output))]
                /\ call' = [op |-> "handle_user_prompt", raised |-> FALSE,
                            prompt |-> prompt, run |-> outcome,
                            pre |-> session_state]
    /\ UNCHANGED <<todos, now, pc, cur, next_id>>

reset_conversation ==
    /\ pc = "idle"
    /\ session_state' = NewSession
    /\ call' = [op |-> "reset_conversation", raised |-> FALSE]
    /\ UNCHANGED <<todos, now, pc, cur, next_id>>

----------------------------------------------------------------------------
(* The tools handed to the agent, src/mdt_agent/agent.py.  A name is the   *)
(* sequence of its words and underscores.                                  *)

Member(name, kind) == [name |-> name, kind |-> kind]

\* the methods TodoTools defines
TodoToolsMethods ==
    {<<"_", "_", "init", "_", "_">>,
     <<"create", "_", "todo">>,
     <<"update", "_", "todo">>,
     <<"mark", "_", "completed">>,
     <<"get", "_", "incomplete", "_", "todos">>,
     <<"_", "resolve", "_", "due", "_", "shortcut">>,
     <<"get", "_", "todos">>}

\* the methods MockTodoTools defines besides those
MockOnlyMethods ==
    {<<"_", "clone">>,
     <<"_", "next", "_", "id", "_", "value">>,
     <<"_", "parse", "_", "datetime">>}

\* what inspect.getmembers finds on every object: slots that are not
\* bound methods
ObjectMembers ==
    {Member(<<"_", "_", "class", "_", "_">>, "type"),
     Member(<<"_", "_", "dict", "_", "_">>, "attribute"),
     Member(<<"_", "_", "eq", "_", "_">>, "method-wrapper"),
     Member(<<"_", "_", "init", "_", "subclass", "_", "_">>, "builtin")}

ToolsObjects == {"TodoTools", "MockTodoTools"}

\* inspect.getmembers(instance)
getmembers(instance) ==
    IF instance = "TodoTools"
    THEN ObjectMembers
            \cup {Member(n, "method") : n \in TodoToolsMethods}
            \cup {Member(<<"base", "_", "url">>, "attribute")}
    ELSE ObjectMembers
            \cup {Member(n, "method") : n \in TodoToolsMethods}
            \cup {Member(n, "method") : n \in MockOnlyMethods}
            \cup {Member(<<"_", "todos">>, "attribute"),
                  Member(<<"_", "next", "_", "id">>, "attribute")}

ismethod(member) == member.kind = "method"

\* name.startswith("_")
startswith_underscore(name) == name # <<>> /\ name[1] = "_"

\* mutant of line 41: only the double-underscore names are left out
get_non_dunder_instance_methods(instance) ==
    {m.name : m \in {x \in getmembers(instance) :
                        /\ ismethod(x)
                        /\ ~(/\ Len(x.name) > 1
                             /\ x.name[1] = "_"
                             /\ x.name[2] = "_")}}

\* _get_public_instance_methods, and get_instance_methods of utils.py
get_public_instance_methods(instance) ==
    {m.name : m \in {x \in getmembers(instance) :
                        ismethod(x) /\ ~startswith_underscore(x.name)}}

\* TodoAgentRunner.__init__: the tools the Agent is built with
TodoAgentRunner_init(todo_tools) ==
    /\ pc = "idle"
    /\ call' = [op |-> "TodoAgentRunner", raised |-> FALSE,
                todo_tools |-> todo_tools,
                tools |-> get_public_instance_methods(todo_tools)]
    /\ UNCHANGED <<todos, now, pc, cur, session_state, next_id>>

----------------------------------------------------------------------------
Init ==
    /\ todos = <<>>
    /\ now = [day |-> 0, sec |-> FivePmSec]
    /\ pc = "idle"
    /\ cur = None
    /\ call = [op |-> "none", raised |-> FALSE]
    /\ session_state = NewSession
    /\ next_id = None

OptTitles == {None} \cup {Some(t) : t \in Titles}
OptTags == {None} \cup {Some(t) : t \in TagLists}

\* every combination of supplied and omitted arguments of update_todo
UpdateArgs == OptTitles \X Dues \X OptTags

\* the updates the agent issues between other calls: nothing supplied,
\* everything supplied, and the empty title with the empty tag list
SomeUpdateArgs ==
    {<<None, None, None>>,
     <<Some("a"), Some(Iso(0, FivePmSec)), Some(<<"work">>)>>,
     <<Some(""), None, Some(<<>>)>>}

Next ==
    \/ \E title \in Titles, due_date \in Dues, tags \in OptTags,
          ok \in BOOLEAN : create_todo(title, due_date, tags, ok)
    \/ \E todo_id \in Ids, a \in SomeUpdateArgs, ok \in BOOLEAN :
            update_todo(todo_id, a[1], a[2], a[3], ok)
    \/ \E todo_id \in Ids, ok \in BOOLEAN : mark_completed(todo_id, ok)
    \/ \E ok \in BOOLEAN : mark_completed_again(ok)
    \/ \E todo_id \in Ids : OtherClientToggle(todo_id)
    \/ \E ok \in BOOLEAN : get_incomplete_todos(ok)
    \/ \E todo_id \in Ids, completed \in BOOLEAN :
            update_todo_completed(todo_id, completed)

Spec == Init /\ [][Next]_vars

----------------------------------------------------------------------------
(* The queries as functions of the store, the clock and the arguments:     *)
(* every store of at most MaxTodos todos, one query per behaviour.         *)

QueryDues == {None, Some(Iso(6, FivePmSec)), Some(Iso(7, FivePmSec)),
              Some(Text("someday"))}
QueryTagLists == {<<>>, <<"work", "api">>}
QueryFields == [text : {"a"}, dueDate : QueryDues, tags : QueryTagLists,
                completed : BOOLEAN]
QueryStores ==
    UNION {{[i \in 1..n |->
                Todo(i, f[i].text, f[i].dueDate, f[i].tags, f[i].completed)] :
            f \in [1..n -> QueryFields]} : n \in 0..MaxTodos}

AnchorDays == {5, 6}
DueArgs == {None, Some(Text("")), Some(Text("today")), Some(Text("tomorrow")),
            Some(Text("this_week")), Some(Text("next_week")),
            Some(Iso(6, FivePmSec)), Some(Text("someday"))}
TagArgs == {None, Some(""), Some("work")}
CompletedArgs == {None, Some(TRUE), Some(FALSE)}

QueryInit ==
    /\ todos \in QueryStores
    /\ now \in [day : AnchorDays, sec : {FivePmSec}]
    /\ pc = "idle"
    /\ cur = None
    /\ call = [op |-> "none", raised |-> FALSE]
    /\ session_state = NewSession
    /\ next_id = None

QueryNext ==
    \/ \E due_date \in DueArgs, tag \in TagArgs, completed \in CompletedArgs,
          ok \in BOOLEAN :
            call.op = "none" /\ get_todos(due_date, tag, completed, ok)
    \/ \E due_date \in DueArgs, tag \in TagArgs, completed \in CompletedArgs :
            call.op = "none" /\ mock_get_todos(due_date, tag, completed)
    \/ \E ok \in BOOLEAN : call.op = "none" /\ get_incomplete_todos(ok)

SpecQuery == QueryInit /\ [][QueryNext]_vars

----------------------------------------------------------------------------
(* One create_todo or update_todo call, with every combination of          *)
(* arguments, from every store of at most MaxTodos todos.                  *)

CallFields == [text : Titles, dueDate : Dues, tags : TagLists,
               completed : BOOLEAN]
CallStores ==
    UNION {{[i \in 1..n |->
                Todo(i, f[i].text, f[i].dueDate, f[i].tags, f[i].completed)] :
            f \in [1..n -> CallFields]} : n \in 0..MaxTodos}

CallInit ==
    /\ todos \in CallStores
    /\ now = [day |-> 0, sec |-> FivePmSec]
    /\ pc = "idle"
    /\ cur = None
    /\ call = [op |-> "none", raised |-> FALSE]
    /\ session_state = NewSession
    /\ next_id = None

CallNext ==
    \/ \E title \in Titles, due_date \in Dues, tags \in OptTags,
          ok \in BOOLEAN :
            call.op = "none" /\ create_todo(title, due_date, tags, ok)
    \/ \E todo_id \in Ids, a \in UpdateArgs, ok \in BOOLEAN :
            call.op = "none" /\ update_todo(todo_id, a[1], a[2], a[3], ok)

SpecCall == CallInit /\ [][CallNext]_vars

----------------------------------------------------------------------------
(* The due-date shortcuts on every anchor: the clock is any of the first   *)
(* MaxAnchorDay + 1 days (day 0 is a Monday, so every weekday occurs) at    *)
(* midnight, 17:00:00 or 23:59:59; the store is empty.                      *)

ClockSecs == {0, FivePmSec, EndOfDaySec}
Shortcuts == {Text("today"), Text("tomorrow"), Text("this_week"),
              Text("next_week")}
ShortcutArgs == Shortcuts \cup {Text(""), Text("Today"), Text("someday"),
                                Iso(6, FivePmSec)}

\* a direct call of _resolve_due_shortcut
call_resolve_due_shortcut(shortcut) ==
    /\ pc = "idle"
    /\ call' = [op |-> "_resolve_due_shortcut", raised |-> FALSE,
                shortcut |-> shortcut,
                result |-> resolve_due_shortcut(shortcut, now)]
    /\ UNCHANGED <<todos, now, pc, cur, session_state, next_id>>

DatesInit ==
    /\ todos = <<>>
    /\ now \in [day : 0..MaxAnchorDay, sec : ClockSecs]
    /\ pc = "idle"
    /\ cur = None
    /\ call = [op |-> "none", raised |-> FALSE]
    /\ session_state = NewSession
    /\ next_id = None

DatesNext ==
    \/ \E shortcut \in ShortcutArgs : call_resolve_due_shortcut(shortcut)
    \/ \E due_date \in {None} \cup {Some(d) : d \in ShortcutArgs},
          ok \in BOOLEAN : get_todos(due_date, None, None, ok)

SpecDates == DatesInit /\ [][DatesNext]_vars

----------------------------------------------------------------------------
(* One call of each operation of TodoTools from every store of at most     *)
(* MaxTodos todos, each request answered with a success or a failure.      *)

FailDueArgs == {None, Some(Text("today"))}
FailTagArgs == {None, Some("work")}

FailNext ==
    \/ \E title \in Titles, due_date \in Dues, tags \in OptTags,
          ok \in BOOLEAN :
            call.op = "none" /\ create_todo(title, due_date, tags, ok)
    \/ \E todo_id \in Ids, a \in SomeUpdateArgs, ok \in BOOLEAN :
            call.op = "none" /\ update_todo(todo_id, a[1], a[2], a[3], ok)
    \/ \E todo_id \in Ids, ok \in BOOLEAN :
            call.op = "none" /\ mark_completed(todo_id, ok)
    \/ \E ok \in BOOLEAN : mark_completed_again(ok)
    \/ \E ok \in BOOLEAN : call.op = "none" /\ get_incomplete_todos(ok)
    \/ \E due_date \in FailDueArgs, tag \in FailTagArgs,
          completed \in CompletedArgs, ok \in BOOLEAN :
            call.op = "none" /\ get_todos(due_date, tag, completed, ok)

SpecFail == CallInit /\ [][FailNext]_vars

----------------------------------------------------------------------------
(* The chat front-end: prompts handled one after the other, resets, and   *)
(* the agent runner built for a tools object.                              *)

AppNext ==
    \/ \E prompt \in Prompts, outcome \in AgentOutcomes :
            handle_user_prompt(prompt, outcome)
    \/ reset_conversation
    \/ \E todo_tools \in ToolsObjects : TodoAgentRunner_init(todo_tools)

SpecApp == Init /\ [][AppNext]_vars

----------------------------------------------------------------------------
(* Two mark_completed calls running at the same time, as when the agent    *)
(* runs two tool calls of one turn side by side: here pc, cur and call     *)
(* hold one value for each caller, and each caller makes one call.         *)

Callers == {"A", "B"}

\* caller c's toggle request for todo_id falls between the two requests
\* of another caller's call for that todo
Inside(c, todo_id) ==
    \E d \in Callers \ {c} : pc[d] = "toggled" /\ cur[d].id = todo_id

\* the callers' locals once c's toggle of todo_id is served: a call of
\* another caller that is between its two requests has one more toggle
\* of its todo in between
Counted(c, todo_id) ==
    [d \in Callers |->
        IF d # c /\ pc[d] = "toggled" /\ cur[d].id = todo_id
        THEN [cur[d] EXCEPT !.mid = @ + 1]
        ELSE cur[d]]

WithInside(record, flag) ==
    [k \in DOMAIN record \cup {"inside"} |->
        IF k = "inside" THEN flag ELSE record[k]]

\* lines 90-96, by caller c
concurrent_mark_completed(c, todo_id, ok) ==
    /\ pc[c] = "idle"
    /\ call[c].op = "none"
    /\ LET status == Status(ok, todo_id \in DOMAIN todos)
           inside == Inside(c, todo_id)
       IN  IF ~raise_for_status(status)
           THEN /\ todos' = RemoteToggle(todos, todo_id)
                /\ LET todo == todos'[todo_id]
                       was == todos[todo_id].completed
                   IN  IF NeedsSecondToggle(todo)
                       THEN /\ pc' = [pc EXCEPT ![c] = "toggled"]
                            /\ cur' = [Counted(c, todo_id) EXCEPT
                                          ![c] = [id |-> todo_id,
                                                  was |-> was, mid |-> 0,
                                                  todo |-> todo,
                                                  inside |-> inside]]
                            /\ call' = call
                       ELSE /\ pc' = pc
                            /\ cur' = Counted(c, todo_id)
                            /\ call' = [call EXCEPT ![c] =
                                  WithInside(
                                    WithStatus(MarkReturn(todo_id, was, 0, 1,
                                                          todo, todo),
                                               status),
                                    inside)]
           ELSE /\ todos' = todos
                /\ pc' = pc
                /\ cur' = cur
                /\ call' = [call EXCEPT ![c] =
                                [op |-> "mark_completed", raised |-> TRUE,
                                 id |-> todo_id, sent |-> 1,
                                 status |-> status]]
    /\ UNCHANGED <<now, session_state, next_id>>

\* lines 97-101, by caller c
concurrent_mark_completed_again(c, ok) ==
    /\ pc[c] = "toggled"
    /\ LET status == Status(ok, TRUE)
           mine == cur[c]
       IN  IF ~raise_for_status(status)
           THEN /\ todos' = RemoteToggle(todos, mine.id)
                /\ cur' = [Counted(c, mine.id) EXCEPT ![c] = None]
                /\ call' = [call EXCEPT ![c] =
                      WithInside(
                        WithStatus(
                          MarkReturn(mine.id, mine.was, mine.mid, 2,
                            mine.todo,
                            ReturnedAfterSecond(mine.todo, todos'[mine.id])),
                          status),
                        mine.inside)]
           ELSE /\ todos' = todos
                /\ cur' = [cur EXCEPT ![c] = None]
                /\ call' = [call EXCEPT ![c] =
                      WithStatus(MarkRaise(mine.id, mine.was, 2,
                                           todos[mine.id].completed),
                                 status)]
    /\ pc' = [pc EXCEPT ![c] = "idle"]
    /\ UNCHANGED <<now, session_state, next_id>>

RaceStores ==
    UNION {{[i \in 1..n |-> Todo(i, "a", None, <<>>, f[i])] :
            f \in [1..n -> BOOLEAN]} : n \in 1..MaxTodos}

RaceInit ==
    /\ todos \in RaceStores
    /\ now = [day |-> 0, sec |-> FivePmSec]
    /\ pc = [c \in Callers |-> "idle"]
    /\ cur = [c \in Callers |-> None]
    /\ call = [c \in Callers |-> [op |-> "none", raised |-> FALSE]]
    /\ session_state = NewSession
    /\ next_id = None

RaceNext ==
    \/ \E c \in Callers, todo_id \in Ids, ok \in BOOLEAN :
            concurrent_mark_completed(c, todo_id, ok)
    \/ \E c \in Callers, ok \in BOOLEAN :
            concurrent_mark_completed_again(c, ok)

SpecRace == RaceInit /\ [][RaceNext]_vars

----------------------------------------------------------------------------
(* The agent as the only client of the remote: the calls of Spec without   *)
(* another client's toggles.                                               *)

AloneNext ==
    \/ \E title \in Titles, due_date \in Dues, tags \in OptTags,
          ok \in BOOLEAN : create_todo(title, due_date, tags, ok)
    \/ \E todo_id \in Ids, a \in SomeUpdateArgs, ok \in BOOLEAN :
            update_todo(todo_id, a[1], a[2], a[3], ok)
    \/ \E todo_id \in Ids, ok \in BOOLEAN : mark_completed(todo_id, ok)
    \/ \E ok \in BOOLEAN : mark_completed_again(ok)
    \/ \E ok \in BOOLEAN : get_incomplete_todos(ok)

SpecAlone == Init /\ [][AloneNext]_vars

----------------------------------------------------------------------------
(* MockTodoTools: its construction and the calls that change its store.    *)
(* An id is a string, here the sequence of its characters; an int is the   *)
(* sequence of its decimal digits without leading zeros, so that the       *)
(* counter is not bounded by a machine word.                               *)

DigitChars == <<"0", "1", "2", "3", "4", "5", "6", "7", "8", "9">>

\* str.isdigit(), for strings of ASCII characters
isdigit(s) ==
    /\ s # <<>>
    /\ \A i \in 1..Len(s) : \E d \in 1..10 : DigitChars[d] = s[i]

DigitOf(c) == CHOOSE d \in 0..9 : DigitChars[d + 1] = c

RECURSIVE Canonical(_)
Canonical(n) ==
    IF Len(n) > 1 /\ Head(n) = 0 THEN Canonical(Tail(n)) ELSE n

\* int(todo_id)
int(s) == Canonical([i \in 1..Len(s) |-> DigitOf(s[i])])

\* str(self._next_id)
str(n) == [i \in 1..Len(n) |-> DigitChars[n[i] + 1]]

RECURSIVE LexLess(_, _)
LexLess(a, b) ==
    /\ a # <<>>
    /\ \/ Head(a) < Head(b)
       \/ Head(a) = Head(b) /\ LexLess(Tail(a), Tail(b))

\* a < b on ints
IntLess(a, b) ==
    Len(a) < Len(b) \/ (Len(a) = Len(b) /\ LexLess(a, b))

\* n + 1
RECURSIVE PlusOne(_)
PlusOne(n) ==
    IF n = <<>> THEN <<1>>
    ELSE IF n[Len(n)] < 9
         THEN [n EXCEPT ![Len(n)] = @ + 1]
         ELSE Append(PlusOne(SubSeq(n, 1, Len(n) - 1)), 0)

\* line 17: the default of max(), 1_000_000_000_000
DefaultMaxId == <<1, 0, 0, 0, 0, 0, 0, 0, 0, 0, 0, 0, 0>>

\* max(numeric_ids, default = DefaultMaxId)
MaxOf(numbers) ==
    IF numbers = {} THEN DefaultMaxId
    ELSE CHOOSE m \in numbers : \A n \in numbers : n = m \/ IntLess(n, m)

\* lines 14-16
numeric_ids(ids) == {int(id) : id \in {x \in ids : isdigit(x)}}

\* mutant of line 17: the counter starts at the largest id, not after it
initial_next_id_at_max(ids) == MaxOf(numeric_ids(ids))

\* line 17
initial_next_id(ids) == PlusOne(MaxOf(numeric_ids(ids)))

\* the ids of the todos a double is constructed with
InitialIdSets ==
    {{},
     {<<"a">>},
     {<<"9">>},
     {<<"0", "0", "7">>, <<"1", "0">>},
     {<<"9", "9">>, <<"a">>}}

\* the last id create_todo gave out on this object, None before the first
LastCreated == IF "created" \in DOMAIN call THEN call.created ELSE None

\* self._todos[todo_id] = todo
Put(store, id, todo) ==
    [k \in DOMAIN store \cup {id} |-> IF k = id THEN todo ELSE store[k]]

\* lines 28-43, with _next_id_value of lines 23-26
mock_create_todo(title, due_date, tags) ==
    /\ pc = "idle"
    /\ Cardinality(DOMAIN todos) < MaxStored
    /\ LET todo_id == str(next_id)
           todo == Todo(todo_id, title, due_date,
                        IF tags = None THEN <<>> ELSE Val(tags), FALSE)
       IN  /\ next_id' = PlusOne(next_id)
           /\ todos' = Put(todos, todo_id, todo)
           /\ call' = [op |-> "mock_create_todo", raised |-> FALSE,
                       id |-> todo_id, created |-> Some(todo_id),
                       pre |-> todos, counter |-> next_id,
                       result |-> todo]
    /\ UNCHANGED <<now, pc, cur, session_state>>

\* lines 45-66
mock_update_todo(todo_id, title, due_date, tags, completed) ==
    /\ pc = "idle"
    /\ IF todo_id \in DOMAIN todos
       THEN /\ todos' = [todos EXCEPT ![todo_id] =
                  [@ EXCEPT
                     !.text = IF title # None THEN Val(title) ELSE @,
                     !.dueDate = IF due_date # None THEN due_date ELSE @,
                     !.tags = IF tags # None THEN Val(tags) ELSE @,
                     !.completed = IF completed # None THEN Val(completed)
                                   ELSE @]]
            /\ call' = [op |-> "mock_update_todo", raised |-> FALSE,
                        id |-> todo_id, created |-> LastCreated,
                        pre |-> todos, counter |-> next_id,
                        result |-> todos'[todo_id]]
       ELSE /\ todos' = todos
            /\ call' = [op |-> "mock_update_todo", raised |-> TRUE,
                        id |-> todo_id, created |-> LastCreated,
                        pre |-> todos, counter |-> next_id,
                        error |-> "ValueError"]
    /\ UNCHANGED <<now, pc, cur, session_state, next_id>>

\* lines 68-74
mock_mark_completed(todo_id) ==
    /\ pc = "idle"
    /\ IF todo_id \in DOMAIN todos
       THEN /\ todos' = MockMarkCompleted(todos, todo_id)
            /\ call' = [op |-> "mock_mark_completed", raised |-> FALSE,
                        id |-> todo_id, created |-> LastCreated,
                        pre |-> todos, counter |-> next_id,
                        result |-> MockMarkResult(todos, todo_id)]
       ELSE /\ todos' = todos
            /\ call' = [op |-> "mock_mark_completed", raised |-> TRUE,
                        id |-> todo_id, created |-> LastCreated,
                        pre |-> todos, counter |-> next_id,
                        error |-> "ValueError"]
    /\ UNCHANGED <<now, pc, cur, session_state, next_id>>

\* lines 9-17: MockTodoTools(todos = ...)
MockInit ==
    /\ \E ids \in InitialIdSets :
            /\ todos = [id \in ids |-> Todo(id, "a", None, <<>>, FALSE)]
            /\ next_id = initial_next_id(ids)
    /\ now = [day |-> 0, sec |-> FivePmSec]
    /\ pc = "idle"
    /\ cur = None
    /\ call = [op |-> "none", raised |-> FALSE]
    /\ session_state = NewSession

\* the ids the calls name: those of the store and one it does not hold
MockIdArgs == DOMAIN todos \cup {<<"4", "2">>}

MockUpdateArgs ==
    {<<Some("b"), None, None, None>>,
     <<None, None, None, Some(FALSE)>>,
     <<None, None, None, None>>}

MockNext ==
    \/ \E title \in {"a"}, due_date \in {None}, tags \in {None} :
            mock_create_todo(title, due_date, tags)
    \/ \E todo_id \in MockIdArgs, a \in MockUpdateArgs :
            mock_update_todo(todo_id, a[1], a[2], a[3], a[4])
    \/ \E todo_id \in MockIdArgs : mock_mark_completed(todo_id)

SpecMock == MockInit /\ [][MockNext]_vars

----------------------------------------------------------------------------
(* Claims about mark_completed, under Spec *)

MarkReturned == call.op = "mark_completed" /\ ~call.raised

\* C1: mark_completed on a todo whose completed flag is false, with no
\* other client toggling it, sends exactly one toggle request, leaves the
\* remote todo completed and returns a record with completed = true.
C1_MarkIncomplete ==
    (MarkReturned /\ ~call.was /\ call.mid = 0)
        => /\ call.sent = 1
           /\ todos[call.id].completed
           /\ call.result.completed
           /\ call.result.id = call.id

C1_Witness ==
    /\ MarkReturned /\ ~call.was /\ call.mid = 0
    /\ call.sent = 1 /\ todos[call.id].completed

\* C2: mark_completed on a todo that is already completed, with no other
\* client toggling it, sees completed = false in the first response, sends
\* a second toggle request and no third, and ends with the remote todo and
\* the returned record completed.
C2_MarkCompletedAgain ==
    (MarkReturned /\ call.was /\ call.mid = 0)
        => /\ ~call.first.completed
           /\ call.sent = 2
           /\ todos[call.id].completed
           /\ call.result.completed

C2_Witness ==
    /\ MarkReturned /\ call.was /\ call.mid = 0
    /\ call.sent = 2 /\ todos[call.id].completed

\* C3: when another client toggles the initially completed todo once
\* between the first and the second request of mark_completed, the call
\* returns after its second request with the remote todo left at
\* completed = false and a returned record with completed = false.
C3_NotAtomic ==
    (MarkReturned /\ call.was /\ call.mid = 1)
        => /\ call.sent = 2
           /\ ~todos[call.id].completed
           /\ ~call.result.completed

C3_Witness ==
    /\ MarkReturned /\ call.was /\ call.mid = 1
    /\ ~todos[call.id].completed /\ ~call.result.completed

----------------------------------------------------------------------------
(* Claims about get_todos, under SpecQuery *)

SetOf(list) == {list[i] : i \in 1..Len(list)}

NoDuplicates(list) == Len(list) = Cardinality(SetOf(list))

GetReturned == call.op \in {"get_todos", "mock_get_todos"} /\ ~call.raised

\* what the call would have answered with completed = None
Unfiltered ==
    IF call.op = "get_todos" THEN call.response
    ELSE MockGetTodos(todos, call.due_date, call.tag, None, now)

\* C4: get_todos(completed=False) returns no completed todo,
\* get_todos(completed=True) returns no incomplete todo, and in both cases
\* every todo of the remote response with the requested flag is returned;
\* get_todos(completed=None) returns the whole remote response.
C4_CompletionFilter ==
    GetReturned =>
        /\ call.completed = Some(FALSE) =>
              SetOf(call.result) = {t \in SetOf(Unfiltered) : ~t.completed}
        /\ call.completed = Some(TRUE) =>
              SetOf(call.result) = {t \in SetOf(Unfiltered) : t.completed}
        /\ call.completed = None => call.result = Unfiltered
        /\ NoDuplicates(call.result)

C4_Witness ==
    /\ call.op = "get_todos" /\ ~call.raised /\ call.completed = None
    /\ \E t \in SetOf(call.result) : t.completed
    /\ \E t \in SetOf(call.result) : ~t.completed

\* the filters as the claim words them
Seconds(d) == d.day * 86400 + d.sec

DueOnOrBefore(t, target) ==
    /\ t.dueDate # None
    /\ \/ Val(t.dueDate) = target
       \/ /\ Val(t.dueDate).kind = "iso" /\ target.kind = "iso"
          /\ Seconds(Val(t.dueDate)) <= Seconds(target)

MatchesAll(t, due_date, tag, completed) ==
    /\ (due_date # None /\ Val(due_date) # Text("")) =>
            DueOnOrBefore(t, DueTarget(due_date, now))
    /\ (tag # None /\ Val(tag) # "") =>
            Val(tag) \in {t.tags[i] : i \in 1..Len(t.tags)}
    /\ completed = Some(TRUE) => t.completed
    /\ completed = Some(FALSE) => ~t.completed

\* C5: get_todos(due_date, tag, completed) returns exactly the todos of the
\* store that match every provided filter: due on or before the resolved
\* due_date (a todo without dueDate never matches), carrying the tag, having
\* the requested completion status; None and "" provide no filter.
C5_AllFilters ==
    GetReturned =>
        /\ SetOf(call.result) =
              {t \in SetOf(TodoList(todos)) :
                  MatchesAll(t, call.due_date, call.tag, call.completed)}
        /\ NoDuplicates(call.result)

C5_Witness ==
    /\ GetReturned
    /\ call.due_date = Some(Text("today")) /\ call.tag = Some("work")
    /\ call.completed = Some(FALSE)
    /\ Len(call.result) = 1 /\ Cardinality(DOMAIN todos) = 2
    /\ todos[1].dueDate = None /\ todos[2].tags = <<"work", "api">>

DueTodayWork(t) ==
    /\ ~t.completed
    /\ t.dueDate # None /\ Val(t.dueDate).kind = "iso"
    /\ Val(t.dueDate).day = now.day
    /\ \E i \in 1..Len(t.tags) : t.tags[i] = "work"

DueNextDay(t) ==
    /\ t.dueDate # None /\ Val(t.dueDate).kind = "iso"
    /\ Val(t.dueDate).day = now.day + 1

GetCalled(due, tag) ==
    /\ GetReturned
    /\ call.due_date = Some(Text(due)) /\ call.tag = tag
    /\ call.completed = Some(FALSE)

\* C6 as claimed: an incomplete todo due on the current day and tagged
\* "work" is returned by get_todos(due_date="today", tag="work") and is not
\* returned by get_todos(due_date="tomorrow").
C6_Original ==
    \A id \in DOMAIN todos :
        DueTodayWork(todos[id]) =>
            /\ GetCalled("today", Some("work")) =>
                    todos[id] \in SetOf(call.result)
            /\ GetCalled("tomorrow", None) =>
                    todos[id] \notin SetOf(call.result)

\* C6 as amended: an incomplete todo due on the current day and tagged
\* "work" is returned by get_todos(due_date="today", tag="work") and also by
\* get_todos(due_date="tomorrow"), whose filter is due on or before the end
\* of tomorrow; it is a todo due on the next day that
\* get_todos(due_date="today") does not return.
C6_DueTodayListed ==
    \A id \in DOMAIN todos :
        /\ DueTodayWork(todos[id]) =>
            /\ GetCalled("today", Some("work")) =>
                    todos[id] \in SetOf(call.result)
            /\ GetCalled("tomorrow", None) =>
                    todos[id] \in SetOf(call.result)
        /\ (/\ DueNextDay(todos[id])
            /\ GetCalled("today", None) \/ GetCalled("today", Some("work")))
                => todos[id] \notin SetOf(call.result)

C6_Witness ==
    /\ GetCalled("tomorrow", None)
    /\ \E id \in DOMAIN todos :
          DueTodayWork(todos[id]) /\ todos[id] \in SetOf(call.result)
    /\ \E id \in DOMAIN todos : DueNextDay(todos[id])

----------------------------------------------------------------------------
(* Claims about update_todo, under SpecCall *)

UpdateReturned == call.op = "update_todo" /\ ~call.raised

\* C7: update_todo(todo_id) with title, due_date and tags all None sends
\* an empty partial payload and leaves text, dueDate, tags and completed of
\* that todo, and every other todo, unchanged.
C7_EmptyUpdate ==
    (/\ UpdateReturned
     /\ call.title = None /\ call.due_date = None /\ call.tags = None)
        => /\ DOMAIN call.payload = {}
           /\ todos = call.pre
           /\ call.result = call.pre[call.id]

C7_Witness ==
    /\ UpdateReturned
    /\ call.title = None /\ call.due_date = None /\ call.tags = None
    /\ call.id = 1 /\ Cardinality(DOMAIN todos) = 2
    /\ call.pre[1].tags # <<>> /\ call.pre[1].text # ""

Supplied(c) ==
    {k \in {"text", "dueDate", "tags"} :
        \/ k = "text" /\ c.title # None
        \/ k = "dueDate" /\ c.due_date # None
        \/ k = "tags" /\ c.tags # None}

\* C8: for every subset of {title, due_date, tags} supplied as non-None,
\* the PATCH payload holds exactly the corresponding keys of
\* {text, dueDate, tags} with the supplied values; afterwards the supplied
\* fields hold the new values ("" and [] count as supplied), the other
\* fields, the completed flag and the other todos are unchanged.
C8_PartialUpdate ==
    UpdateReturned =>
        LET old == call.pre[call.id]
            new == todos[call.id]
        IN  /\ DOMAIN call.payload = Supplied(call)
            /\ call.title # None =>
                  call.payload["text"] = call.title[1]
                    /\ new.text = call.title[1]
            /\ call.due_date # None =>
                  call.payload["dueDate"] = call.due_date
                    /\ new.dueDate = call.due_date
            /\ call.tags # None =>
                  call.payload["tags"] = call.tags[1]
                    /\ new.tags = call.tags[1]
            /\ call.title = None => new.text = old.text
            /\ call.due_date = None => new.dueDate = old.dueDate
            /\ call.tags = None => new.tags = old.tags
            /\ new.completed = old.completed /\ new.id = old.id
            /\ call.result = new
            /\ DOMAIN todos = DOMAIN call.pre
            /\ \A i \in DOMAIN todos \ {call.id} : todos[i] = call.pre[i]

C8_Witness ==
    /\ UpdateReturned
    /\ call.title = Some("") /\ call.due_date = None
    /\ call.tags = Some(<<>>)
    /\ call.pre[call.id].text = "a" /\ call.pre[call.id].tags = <<"work">>
    /\ call.pre[call.id].completed /\ call.pre[call.id].dueDate # None
    /\ todos[call.id].text = "" /\ todos[call.id].tags = <<>>

----------------------------------------------------------------------------
(* Claims about create_todo and get_incomplete_todos, under Spec *)

CreateReturned == call.op = "create_todo" /\ ~call.raised

CreatedAsGiven ==
    CreateReturned =>
        LET new == call.result
        IN  /\ new.text = call.title
            /\ new.dueDate = call.due_date
            /\ new.tags = (IF call.tags = None THEN <<>> ELSE call.tags[1])
            /\ ~new.completed
            /\ new.id \notin DOMAIN call.pre
            /\ DOMAIN todos = DOMAIN call.pre \cup {new.id}
            /\ todos[new.id] = new
            /\ \A i \in DOMAIN call.pre : todos[i] = call.pre[i]

IncompleteListed ==
    (call.op = "get_incomplete_todos" /\ ~call.raised) =>
        \A id \in DOMAIN todos :
            ~todos[id].completed => todos[id] \in SetOf(call.result)

\* a todo stays, and stays incomplete, in every step but a toggle request
KeptUntilToggled ==
    \A id \in DOMAIN todos :
        /\ id \in DOMAIN todos'
        /\ todos'[id].completed # todos[id].completed =>
              call'.op \in {"mark_completed", "mark_completed_request",
                            "other_client"}

\* C9: create_todo(title, due_date, tags) creates one new todo with text
\* title, dueDate due_date as given (None when omitted), the given tags
\* ([] when omitted or None) and completed = false, and changes no existing
\* todo; every later get_incomplete_todos() contains it until it is marked
\* completed.
C9_Create ==
    [](CreatedAsGiven /\ IncompleteListed) /\ [][KeptUntilToggled]_vars

C9_Witness ==
    /\ CreateReturned
    /\ call.tags = None /\ call.due_date # None /\ call.title = "a"
    /\ call.result.tags = <<>> /\ call.result.id = 2
    /\ call.pre[1].completed /\ call.pre[1].tags = <<"work">>
    /\ call.result \in SetOf(IncompleteOf(RemoteList(todos)))

IncompleteExactly ==
    (call.op = "get_incomplete_todos" /\ ~call.raised) =>
        /\ SetOf(call.result) =
              {todos[id] : id \in {i \in DOMAIN todos : ~todos[i].completed}}
        /\ NoDuplicates(call.result)

ListedAsCompleted(id) ==
    /\ id \notin IdsOf(IncompleteOf(RemoteList(todos)))
    /\ id \in IdsOf(CompletionFilter(
                 RemoteGet(todos, GetTodosParams(None, None, now)),
                 Some(TRUE)))

\* C10 as claimed: get_incomplete_todos() returns exactly the todos whose
\* completed flag is false; after mark_completed(id) has returned and until
\* another operation changes that todo, id is absent from
\* get_incomplete_todos() and present in get_todos(completed=True).
C10_Original ==
    /\ IncompleteExactly
    /\ MarkReturned => ListedAsCompleted(call.id)

\* C10 as amended: the same, for a mark_completed(id) during which no other
\* client toggled the todo between the first and the second request.
C10_IncompleteAfterMark ==
    /\ IncompleteExactly
    /\ (MarkReturned /\ call.mid = 0) => ListedAsCompleted(call.id)

C10_Witness ==
    /\ MarkReturned /\ call.mid = 0 /\ call.sent = 2
    /\ Cardinality(DOMAIN todos) = 2
    /\ ListedAsCompleted(call.id)
    /\ \E id \in DOMAIN todos : ~todos[id].completed

----------------------------------------------------------------------------
(* Claims about the due-date shortcuts, under SpecDates *)

\* the civil date of a day of the model: day 0 is Monday 2025-12-22
CivilDate(day) ==
    IF day <= 9 THEN [year |-> 2025, month |-> 12, day |-> 22 + day]
    ELSE IF day <= 40 THEN [year |-> 2026, month |-> 1, day |-> day - 9]
    ELSE [year |-> 2026, month |-> 2, day |-> day - 40]

Resolved(token) ==
    /\ call.op = "_resolve_due_shortcut"
    /\ call.shortcut = Text(token)

\* C11: "today" resolves to a timestamp whose date is the current date and
\* whose time is 23:59:59, whatever the time of day of the clock.
C11_Today ==
    Resolved("today") =>
        /\ call.result # None
        /\ Val(call.result).kind = "iso"
        /\ Val(call.result).day = now.day
        /\ CivilDate(Val(call.result).day) = CivilDate(now.day)
        /\ Val(call.result).sec = 23 * 3600 + 59 * 60 + 59

\* "today" resolved on New Year's Eve, with the clock not at 23:59:59
C11_Witness ==
    /\ Resolved("today")
    /\ CivilDate(now.day) = [year |-> 2025, month |-> 12, day |-> 31]
    /\ now.sec # EndOfDaySec
    /\ call.result = Some(Iso(now.day, EndOfDaySec))

\* C12: on every anchor the "next_week" timestamp is the "this_week"
\* timestamp plus exactly seven days (same time of day, seven days later).
C12_NextWeek ==
    Resolved("next_week") =>
        LET this_week == resolve_due_shortcut(Text("this_week"), now)
        IN  /\ call.result # None
            /\ this_week # None
            /\ Val(call.result).kind = "iso"
            /\ Val(call.result).day = Val(this_week).day + 7
            /\ Val(call.result).sec = Val(this_week).sec

\* "next_week" resolved in 2025 with this_week in 2025 and next_week in 2026
C12_Witness ==
    /\ Resolved("next_week")
    /\ weekday(now) # 6
    /\ CivilDate(now.day).year = 2025
    /\ CivilDate(Val(call.result).day - 7).year = 2025
    /\ CivilDate(Val(call.result).day).year = 2026
    /\ CivilDate(Val(call.result).day).month = 1

\* C13: "this_week" resolves to 23:59:59 of the day (6 - weekday) days
\* after the current date, Monday being weekday 0: that day is always a
\* Sunday, zero to six days ahead, and on a Sunday it is the "today" value.
C13_ThisWeek ==
    Resolved("this_week") =>
        /\ call.result = Some(Iso(now.day + (6 - (now.day % 7)), EndOfDaySec))
        /\ Val(call.result).day % 7 = 6
        /\ Val(call.result).day - now.day \in 0..6
        /\ now.day % 7 = 6 =>
                call.result = resolve_due_shortcut(Text("today"), now)

\* "this_week" resolved on a Sunday
C13_Witness ==
    /\ Resolved("this_week")
    /\ now.day % 7 = 6
    /\ call.result = Some(Iso(now.day, EndOfDaySec))

\* C14: "tomorrow" resolves to exactly one day after the "today" value.
C14_Tomorrow ==
    Resolved("tomorrow") =>
        LET today == resolve_due_shortcut(Text("today"), now)
        IN  /\ call.result # None
            /\ today # None
            /\ Val(call.result).kind = "iso"
            /\ Val(call.result).day = Val(today).day + 1
            /\ Val(call.result).sec = Val(today).sec

\* "tomorrow" resolved on the last day of the year
C14_Witness ==
    /\ Resolved("tomorrow")
    /\ CivilDate(now.day) = [year |-> 2025, month |-> 12, day |-> 31]
    /\ CivilDate(Val(call.result).day) = [year |-> 2026, month |-> 1, day |-> 1]

GetTodosSent == call.op = "get_todos" /\ ~call.raised

\* the due-before value of the request is the resolved timestamp for one
\* of the four tokens and the caller's own string for anything else
FilterValueOf(due_date) ==
    IF Val(due_date) \in Shortcuts
    THEN /\ "dueBefore" \in DOMAIN call.params
         /\ resolve_due_shortcut(Val(due_date), now) # None
         /\ call.params["dueBefore"] =
                Val(resolve_due_shortcut(Val(due_date), now))
         /\ call.params["dueBefore"].kind = "iso"
         /\ call.params["dueBefore"] # Val(due_date)
    ELSE /\ resolve_due_shortcut(Val(due_date), now) = None
         /\ "dueBefore" \in DOMAIN call.params
         /\ call.params["dueBefore"] = Val(due_date)

\* C15 as stated: for every due_date string that is not exactly one of
\* the four tokens the resolver returns None and get_todos sends that
\* string itself as the due-before value; for a token it sends the
\* resolved timestamp and never the token.
C15_Original ==
    (GetTodosSent /\ call.due_date # None) => FilterValueOf(call.due_date)

\* C15, amended: the same for every non-empty due_date string, while for
\* None and for the empty string get_todos sends no due-before value.
C15_ShortcutOrLiteral ==
    GetTodosSent =>
        IF Truthy(call.due_date) THEN FilterValueOf(call.due_date)
        ELSE "dueBefore" \notin DOMAIN call.params

\* a differently cased token is sent as it is, and so is an ISO timestamp
C15_Witness ==
    /\ GetTodosSent
    /\ call.due_date \in {Some(Text("Today")), Some(Iso(6, FivePmSec))}
    /\ call.params["dueBefore"] = Val(call.due_date)

----------------------------------------------------------------------------
(* Claims about failing requests, under SpecFail *)

Requested(c) ==
    c.op \in {"create_todo", "update_todo", "mark_completed",
              "mark_completed_request", "get_incomplete_todos", "get_todos"}

Refused(c) == Requested(c) /\ c.status \notin 200..299

\* after a refused request the call has raised, carries no result, and
\* has no step left to take
RaisedAndOver ==
    Refused(call) =>
        /\ call.raised
        /\ "result" \notin DOMAIN call
        /\ pc = "idle"
        /\ cur = None

\* the refused request is the last one of its call: the first of a
\* create, update, list or mark call, or the second toggle of a mark call
LastRequest ==
    (Refused(call') /\ call' # call) =>
        /\ call'.sent = (IF pc = "toggled" THEN 2 ELSE 1)
        /\ pc' = "idle"

----------------------------------------------------------------------------
(* Claims about the chat front-end, under SpecApp *)

RunRaised == call.op = "handle_user_prompt" /\ call.run.kind = "raises"

\* C17: when the agent run raises during handle_user_prompt, the turn ends
\* with agent_messages unchanged, chat_history extended by the user prompt
\* and then exactly one assistant message carrying the error text, and
\* tool_logs extended by exactly one entry, for that prompt, carrying the
\* error text.
C17_ErrorTurn ==
    RunRaised =>
        LET text == <<"Unable to fulfill the request: ">> \o call.run.exc
            clean == strip(call.prompt)
        IN  /\ session_state.agent_messages = call.pre.agent_messages
            /\ session_state.chat_history =
                    call.pre.chat_history \o
                        <<[role |-> "user", content |-> clean],
                          [role |-> "assistant", content |-> text]>>
            /\ session_state.tool_logs =
                    call.pre.tool_logs \o
                        <<[prompt |-> clean, entries |-> <<text>>]>>

\* a run raises in the turn after a successful one, on a padded prompt
C17_Witness ==
    /\ RunRaised
    /\ call.pre.agent_messages # <<>>
    /\ call.prompt # strip(call.prompt)
    /\ Len(session_state.chat_history) = 4
    /\ Len(session_state.tool_logs) = 2

RunnerBuilt == call.op = "TodoAgentRunner"

----------------------------------------------------------------------------
(* Claims about undoing a completion, under Spec *)

\* the ids get_todos(completed = flag) returns in the current state
ListedWith(flag) ==
    IdsOf(CompletionFilter(RemoteGet(todos, GetTodosParams(None, None, now)),
                           Some(flag)))

\* C19: after mark_completed(id) followed by update_todo(id,
\* completed = False), get_todos(completed = False) contains id and
\* get_todos(completed = True) does not.
C19_SetBackIncomplete ==
    (/\ call.op = "update_todo"
     /\ "completed" \in DOMAIN call
     /\ call.completed = Some(FALSE)
     /\ call.marked) =>
        /\ call.id \in ListedWith(FALSE)
        /\ call.id \notin ListedWith(TRUE)

----------------------------------------------------------------------------
(* Claims about concurrent mark_completed calls, under SpecRace *)

Returned(c) == call[c].op = "mark_completed" /\ ~call[c].raised

\* caller a found the todo completed and sent two requests; caller b's
\* call for the same todo took one request, which fell between them, and
\* was the only request between them: toggle(a), toggle(b), toggle(a)
Interleaved(a, b) ==
    /\ Returned(a)
    /\ Returned(b)
    /\ call[a].id = call[b].id
    /\ call[a].was
    /\ call[a].sent = 2
    /\ call[a].mid = 1
    /\ call[b].sent = 1
    /\ call[b].inside

\* C20: two concurrent mark_completed calls for a todo that is completed
\* at first, interleaved as toggle(A), toggle(B), toggle(A), both return:
\* B with completed = true after one request, A with completed = false
\* after two, and the remote todo is left with completed = false.
C20_BothReturnIncomplete ==
    \A a \in Callers, b \in Callers :
        (a # b /\ Interleaved(a, b)) =>
            /\ call[b].result.completed
            /\ ~call[a].result.completed
            /\ ~todos[call[a].id].completed
            /\ pc = [c \in Callers |-> "idle"]

\* the interleaving has happened with A as the two-request caller
C20_Witness ==
    /\ Interleaved("A", "B")
    /\ call["A"].result.completed = FALSE
    /\ call["B"].result.completed = TRUE
    /\ todos[call["A"].id].completed = FALSE

----------------------------------------------------------------------------
(* Claims about a failing mark_completed, under Spec *)

\* mark_completed has raised on a request for a todo the remote holds
MarkRaised ==
    /\ call.op = "mark_completed"
    /\ call.raised
    /\ "was" \in DOMAIN call

\* C21 as stated: when mark_completed raises on its first request the
\* todo's completed flag is unchanged; when it raises on its second
\* request the todo was completed before the call and is left at
\* completed = false.
C21_Original ==
    MarkRaised =>
        /\ call.sent = 1 => todos[call.id].completed = call.was
        /\ call.sent = 2 =>
                /\ call.was
                /\ ~todos[call.id].completed

\* C21, amended: the same, the todo being left at completed = false after
\* a failed second request provided no other client toggled it between
\* the two requests.
C21_FailedMark ==
    MarkRaised =>
        /\ call.sent \in {1, 2}
        /\ call.sent = 1 => todos[call.id].completed = call.was
        /\ call.sent = 2 =>
                /\ call.was
                /\ call.mid = 0 => ~todos[call.id].completed

\* the second request failed with nothing in between: a todo that was
\* completed is now incomplete
C21_Witness ==
    /\ MarkRaised
    /\ call.sent = 2
    /\ call.mid = 0
    /\ call.was
    /\ ~todos[call.id].completed

----------------------------------------------------------------------------
(* Claims about repeated mark_completed calls, under SpecAlone *)

\* the last event is an undisturbed return of mark_completed(todo_id)
JustMarked(todo_id) ==
    /\ call.op = "mark_completed"
    /\ ~call.raised
    /\ call.id = todo_id
    /\ call.mid = 0

\* this step is the return of a mark_completed call
MarkReturns == call'.op = "mark_completed" /\ ~call'.raised /\ todos' # todos

\* a call that returns after its first request began in the store of the
\* step, a call that returns after its second began in cur.pre
OneRequest ==
    (pc = "idle" /\ MarkReturns) =>
        /\ call'.sent = 1
        /\ ~JustMarked(call'.id)
        /\ todos' = [todos EXCEPT ![call'.id].completed = TRUE]

TwoRequests ==
    (pc = "toggled" /\ MarkReturns) =>
        /\ call'.sent = 2
        /\ cur.pre[cur.id].completed
        /\ todos' = cur.pre
        /\ todos' = [cur.pre EXCEPT ![cur.id].completed = TRUE]

\* the call that follows a returned call for the same todo at once needs
\* its second request
Again ==
    (/\ pc = "idle"
     /\ MarkReturned
     /\ JustMarked(call.id)
     /\ call'.op \in {"mark_completed", "mark_completed_request"}
     /\ todos'[call.id].completed # todos[call.id].completed) =>
        /\ pc' = "toggled"
        /\ cur'.id = call.id
        /\ cur'.pre = todos

\* C22: without concurrent mutation, mark_completed(id) leaves the todo
\* completed with all other fields and all other todos unchanged,
\* whatever the completed flag was, and a second call in a row leaves
\* that same state, sending two toggle requests.
C22_Idempotent ==
    /\ [][OneRequest /\ TwoRequests /\ Again]_vars
    /\ [](MarkReturned => todos[call.id].completed)

\* the second request of a call has returned, in a store of two todos
\* of which the other is incomplete
C22_Witness ==
    /\ MarkReturned
    /\ call.sent = 2
    /\ call.was
    /\ todos[call.id].completed
    /\ \E other \in DOMAIN todos : ~todos[other].completed

----------------------------------------------------------------------------
(* Claims about the test double and the client, under SpecFail *)

\* TodoTools.mark_completed returning after one request, and after two,
\* leaves the store and returns the record MockTodoTools.mark_completed
\* does from the store the call began in
SameAsMockOnce ==
    (pc = "idle" /\ MarkReturns) =>
        /\ todos' = MockMarkCompleted(todos, call'.id)
        /\ call'.result = MockMarkResult(todos, call'.id)

SameAsMockTwice ==
    (pc = "toggled" /\ MarkReturns) =>
        /\ todos' = MockMarkCompleted(cur.pre, cur.id)
        /\ call'.result = MockMarkResult(cur.pre, cur.id)

\* C23: for every store and every existing id, without concurrent
\* mutation, TodoTools.mark_completed against a remote whose toggle flips
\* the flag ends in the same store and returns the same record as
\* MockTodoTools.mark_completed, which sets completed = true directly.
C23_MockEquivalent == [][SameAsMockOnce /\ SameAsMockTwice]_vars

\* the client has returned after two requests, for the second todo of a
\* store, with the record and the store the double gives
C23_Witness ==
    /\ MarkReturned
    /\ call.sent = 2
    /\ call.id = 2
    /\ call.result = MockMarkResult(todos, call.id)
    /\ todos = MockMarkCompleted(todos, call.id)

----------------------------------------------------------------------------
(* Claims relating the two queries, under SpecQuery *)

\* get_todos was called with its default arguments
DefaultQuery(op) ==
    /\ call.op = op
    /\ ~call.raised
    /\ call.due_date = None
    /\ call.tag = None
    /\ call.completed = Some(FALSE)

\* what get_todos() with its default arguments returns from the store
DefaultGetTodos ==
    CompletionFilter(RemoteGet(todos, GetTodosParams(None, None, now)),
                     Some(FALSE))

\* C24: for every store, get_incomplete_todos() returns the same todos as
\* get_todos() with its default arguments (no due_date, no tag,
\* completed = False), in the client and in the test double.
C24_SameAsDefault ==
    /\ (call.op = "get_incomplete_todos" /\ ~call.raised) =>
            call.result = DefaultGetTodos
    /\ DefaultQuery("get_todos") =>
            call.result = IncompleteOf(RemoteList(todos))
    /\ DefaultQuery("mock_get_todos") =>
            call.result = MockGetIncomplete(todos)

\* get_incomplete_todos has returned one of the two todos of a store
C24_Witness ==
    /\ call.op = "get_incomplete_todos"
    /\ ~call.raised
    /\ Len(call.result) = 1
    /\ Cardinality(DOMAIN todos) = 2
    /\ call.result = DefaultGetTodos

----------------------------------------------------------------------------
(* Claims about the order of the shortcuts, under SpecDates *)

\* the timestamp a token resolves to on the current clock
At(token) == Val(resolve_due_shortcut(Text(token), now))

\* timestamp a is earlier than timestamp b
Earlier(a, b) == a.day < b.day \/ (a.day = b.day /\ a.sec < b.sec)
NotLater(a, b) == a = b \/ Earlier(a, b)

ShortcutResolved ==
    /\ call.op = "_resolve_due_shortcut"
    /\ call.shortcut \in Shortcuts

\* C25: on every anchor today <= this_week < next_week and
\* today < tomorrow <= next_week; tomorrow <= this_week on every weekday
\* but Sunday, where this_week equals today and is earlier than tomorrow.
C25_Ordered ==
    ShortcutResolved =>
        /\ call.result = Some(At(call.shortcut.s))
        /\ NotLater(At("today"), At("this_week"))
        /\ Earlier(At("this_week"), At("next_week"))
        /\ Earlier(At("today"), At("tomorrow"))
        /\ NotLater(At("tomorrow"), At("next_week"))
        /\ IF now.day % 7 = 6
           THEN /\ At("this_week") = At("today")
                /\ Earlier(At("this_week"), At("tomorrow"))
           ELSE NotLater(At("tomorrow"), At("this_week"))

\* "this_week" resolved on a Sunday: it is the today value, before tomorrow
C25_Witness ==
    /\ ShortcutResolved
    /\ call.shortcut = Text("this_week")
    /\ now.day % 7 = 6
    /\ Val(call.result) = At("today")
    /\ Earlier(Val(call.result), At("tomorrow"))

----------------------------------------------------------------------------
(* Claims about the conversation kept by the chat front-end, under SpecApp *)

\* two messages for each tool-log entry, user then assistant, the user
\* message being the prompt of the entry
TwoPerEntry ==
    LET chat == session_state.chat_history
        logs == session_state.tool_logs
    IN  /\ Len(chat) = 2 * Len(logs)
        /\ \A i \in 1..Len(logs) :
                /\ chat[2 * i - 1].role = "user"
                /\ chat[2 * i].role = "assistant"
                /\ chat[2 * i - 1].content = logs[i].prompt

\* what the last handled prompt did to the conversation
TurnEffect ==
    call.op = "handle_user_prompt" =>
        IF strip(call.prompt) = <<>>
        THEN session_state = call.pre
        ELSE /\ call.run.kind \in {"returns", "raises"}
             /\ Len(session_state.chat_history) =
                    Len(call.pre.chat_history) + 2
             /\ SubSeq(session_state.chat_history, 1,
                       Len(call.pre.chat_history)) = call.pre.chat_history
             /\ Len(session_state.tool_logs) = Len(call.pre.tool_logs) + 1
             /\ SubSeq(session_state.tool_logs, 1,
                       Len(call.pre.tool_logs)) = call.pre.tool_logs

ResetEffect ==
    call.op = "reset_conversation" =>
        /\ session_state.agent_messages = <<>>
        /\ session_state.chat_history = <<>>
        /\ session_state.tool_logs = <<>>

\* C26: after any sequence of handled prompts (successful, failing with
\* an exception, or blank) and resets, the chat history holds two
\* messages per tool-log entry, user then assistant; a non-blank prompt
\* appends one user message, one assistant message and one tool-log
\* entry whether the run succeeds or fails, a blank prompt changes
\* nothing, and a reset empties the three lists together.
C26_Conversation == TwoPerEntry /\ TurnEffect /\ ResetEffect

\* a whitespace-only prompt handled after a successful and a failing turn
C26_Witness ==
    /\ call.op = "handle_user_prompt"
    /\ call.prompt # <<>>
    /\ strip(call.prompt) = <<>>
    /\ Len(session_state.tool_logs) = 2
    /\ Len(session_state.agent_messages) = 2
    /\ session_state = call.pre

----------------------------------------------------------------------------
(* Claims about the ids of MockTodoTools, under SpecMock *)

\* every todo is stored under its own id, so no two stored todos share one
IdsDistinct ==
    /\ \A k \in DOMAIN todos : todos[k].id = k
    /\ Cardinality({todos[k].id : k \in DOMAIN todos})
           = Cardinality(DOMAIN todos)

\* the counter is past every numeric id of the store
CounterPastIds ==
    \A k \in DOMAIN todos : isdigit(k) => IntLess(int(k), next_id)

\* the id created last is the one just before the counter
LastIsBeforeCounter ==
    LastCreated # None =>
        /\ isdigit(Val(LastCreated))
        /\ PlusOne(int(Val(LastCreated))) = next_id

\* a create_todo step takes the counter's decimal string as a fresh id,
\* leaves every other todo alone and advances the counter by one
CreateStep ==
    call'.op = "mock_create_todo" =>
        /\ call'.id = str(next_id)
        /\ call'.id \notin DOMAIN todos
        /\ \A k \in DOMAIN todos :
               isdigit(k) => IntLess(int(k), int(call'.id))
        /\ DOMAIN todos' = DOMAIN todos \cup {call'.id}
        /\ \A k \in DOMAIN todos : todos'[k] = todos[k]
        /\ next_id' = PlusOne(next_id)

\* any other call keeps the ids and the counter
OtherStep ==
    call'.op # "mock_create_todo" =>
        /\ DOMAIN todos' = DOMAIN todos
        /\ next_id' = next_id

\* C27: in MockTodoTools, after any sequence of create_todo, update_todo
\* and mark_completed calls the stored ids are distinct, create_todo never
\* overwrites a todo, each new id is the decimal string of a counter that
\* is greater than every numeric id of the store and grows by exactly one
\* per create, and the id created last is _next_id - 1.
C27_FreshIds ==
    /\ [](IdsDistinct /\ CounterPastIds /\ LastIsBeforeCounter)
    /\ [][CreateStep /\ OtherStep]_vars

\* a double built with the ids "99" and "a" has created "100" and "101"
\* and has then been asked to mark one of them
C27_Witness ==
    /\ call.op = "mock_mark_completed"
    /\ ~call.raised
    /\ call.created = Some(<<"1", "0", "1">>)
    /\ DOMAIN todos =
           {<<"9", "9">>, <<"a">>, <<"1", "0", "0">>, <<"1", "0", "1">>}

====
